---- MODULE Spec2Model ----
(***************************************************************************)
(* The external scanner of tree-sitter-tlaplus (src/scanner.cc): a stack   *)
(* of column positions of the open conjunction lists, its byte codec, and  *)
(* the scan step that emits INDENT / NEWLINE / DEDENT.                     *)
(***************************************************************************)
EXTENDS Integers, Sequences, FiniteSets, TLC

VARIABLES
  column_indices,   \* Scanner::column_indices, bottom first
  status,           \* "running", "aborted" (an assert failed), "undefined"
  buffer,           \* the bytes the last serialize wrote into the host's buffer
  length,           \* the length the last serialize returned (0: none taken)
  saved,            \* the stack as it was when those bytes were written
  call,             \* the call that has just returned, Idle between calls
  run,              \* history: the connective columns of an opening run
  probe             \* history: the input position the host is re-examining

vars == <<column_indices, status, buffer, length, saved, call, run, probe>>

----------------------------------------------------------------------------
(* Bounds of the model.                                                    *)

\* The host reports a column in 0..MaxColumn, or the largest column an
\* int16_t holds, for the first non-blank character.
MaxColumn == 1

----------------------------------------------------------------------------
(* Types and constants of the program.                                     *)

INDENT == "INDENT"
NEWLINE == "NEWLINE"
DEDENT == "DEDENT"
TokenType == {INDENT, NEWLINE, DEDENT}

UINT8_MAX == 255

\* The largest value of column_index (int16_t).
INT16_MAX == 32767

\* column_index is int16_t: a host column (uint32_t) is converted on
\* initialisation of conj_col and keeps its low 16 bits, read as signed.
column_index(c) ==
  LET low == c % 65536
  IN  IF low >= 32768 THEN low - 65536 ELSE low

\* sizeof(column_index)
SizeofColumnIndex == 2

\* Characters of the input.  LAND is the one-codepoint spelling, SLASH
\* followed by BACKSLASH the two-character one, LETTER any other character.
SP == "SP"
TAB == "TAB"
LF == "LF"
CR == "CR"
LAND == "LAND"
SLASH == "SLASH"
BACKSLASH == "BACKSLASH"
LETTER == "LETTER"
EOF == "EOF"

\* Runs of blank characters the host may place before the next token.
Trivia ==
  {<<>>, <<SP>>, <<TAB>>, <<LF>>, <<CR>>, <<LF, SP>>}

\* What follows the blank run, up to the end of the input.
Tails ==
  {<<>>, <<LAND>>, <<SLASH, BACKSLASH>>, <<SLASH, LETTER>>, <<SLASH>>,
   <<LETTER>>}

Texts == {t \o g : t \in Trivia, g \in Tails}

----------------------------------------------------------------------------
(* The host's lexer object, as far as the scanner uses it.                 *)

\* text: the input from the cursor on; pos: the cursor (1 is the first
\* character); column: what get_column reports at the first non-blank
\* character; token_end: where mark_end was called (0: never);
\* skipped / advanced: characters passed with skip / advance.
NewLexer(text, column, symbol) ==
  [text |-> text, pos |-> 1, column |-> column, result_symbol |-> symbol,
   token_end |-> 0, skipped |-> 0, advanced |-> 0]

next_codepoint(lexer) ==
  IF lexer.pos <= Len(lexer.text) THEN lexer.text[lexer.pos] ELSE EOF

next_codepoint_is(lexer, token) == token = next_codepoint(lexer)

has_next(lexer) == ~next_codepoint_is(lexer, EOF)

advance(lexer) ==
  [lexer EXCEPT !.pos = @ + 1, !.advanced = @ + 1]

skip(lexer) ==
  [lexer EXCEPT !.pos = @ + 1, !.skipped = @ + 1]

mark_end(lexer) == [lexer EXCEPT !.token_end = lexer.pos]

get_column(lexer) == lexer.column

----------------------------------------------------------------------------
(* The state codec: Scanner::serialize and Scanner::deserialize.           *)

\* The two bytes memcpy copies for one int16_t column, low byte first.
ColumnBytes(v) ==
  LET u == IF v < 0 THEN v + 65536 ELSE v
  IN  <<u % 256, u \div 256>>

\* The int16_t column memcpy stores from two bytes.
ColumnOfBytes(lo, hi) == column_index(lo + 256 * hi)

\* The bytes of column_indices.data(): the columns one after the other.
StackBytes(self) ==
  [k \in 1..(2 * Len(self)) |->
     ColumnBytes(self[(k + 1) \div 2])[2 - (k % 2)]]

\* serialize: the bytes written, the value returned, and whether the
\* assert on the depth let the call return.
serialize(self) ==
  LET nested_conjlist_depth == Len(self)
      byte_count == nested_conjlist_depth * SizeofColumnIndex
      length_offset == 1
  IN  IF nested_conjlist_depth > UINT8_MAX
      THEN [status |-> "aborted", buffer |-> <<>>, ret |-> 0]
      ELSE [status |-> "running",
            buffer |-> <<nested_conjlist_depth % 256>> \o
                       (IF nested_conjlist_depth > 0
                        THEN StackBytes(self) ELSE <<>>),
            ret |-> length_offset + byte_count]

\* std::vector::resize: cut the tail off, or pad with zeros.
resize(self, n) ==
  [i \in 1..n |-> IF i <= Len(self) THEN self[i] ELSE 0]

\* memcpy of byte_count bytes from &buffer[length_offset] over the data of
\* the resized vector.
CopyIn(self, bytes, length_offset) ==
  [i \in 1..Len(self) |->
     ColumnOfBytes(bytes[length_offset + 2 * i - 1],
                   bytes[length_offset + 2 * i])]

\* deserialize: the stack it leaves.  Nothing is written when length is 0
\* or when the depth byte is 0.
deserialize(self, bytes, len) ==
  IF len > 0
  THEN LET nested_conjlist_depth == bytes[1]
           length_offset == 1
       IN  IF nested_conjlist_depth > 0
           THEN CopyIn(resize(self, nested_conjlist_depth), bytes,
                       length_offset)
           ELSE self
  ELSE self

----------------------------------------------------------------------------
(* The column stack and the two token rules.                               *)

get_current_jlist_column_index(self) ==
  IF self = <<>> THEN -1 ELSE self[Len(self)]

push_back(self, next) == Append(self, next)

\* What a call hands back: ret is the value returned, lexer the lexer as
\* the call leaves it, column_indices the stack, status whether the call
\* returned at all.
Returned(ret, lexer, self) ==
  [ret |-> ret, lexer |-> lexer, column_indices |-> self,
   status |-> "running"]

\* A failed assert ends the process before anything else is written (the
\* asserts are compiled in: the source does not define NDEBUG).
AssertFailed(lexer, self) ==
  [ret |-> FALSE, lexer |-> lexer, column_indices |-> self,
   status |-> "aborted"]

\* pop_back on an empty vector is undefined.
Undefined(lexer, self) ==
  [ret |-> FALSE, lexer |-> lexer, column_indices |-> self,
   status |-> "undefined"]

\* result_symbol = DEDENT; pop_back(); return true
EmitDedent(lexer, self) ==
  IF self = <<>>
  THEN Undefined([lexer EXCEPT !.result_symbol = DEDENT], self)
  ELSE Returned(TRUE, [lexer EXCEPT !.result_symbol = DEDENT],
                SubSeq(self, 1, Len(self) - 1))

\* handle_land_token with the pop left out of the DEDENT case.
handle_land_token_no_pop(self, lexer, valid_symbols, next) ==
  LET current == get_current_jlist_column_index(self)
  IN  IF current < next
      THEN IF valid_symbols[INDENT]
           THEN Returned(TRUE, [lexer EXCEPT !.result_symbol = INDENT],
                         push_back(self, next))
           ELSE Returned(FALSE, lexer, self)
      ELSE IF current = next
      THEN IF valid_symbols[NEWLINE]
           THEN Returned(TRUE, [lexer EXCEPT !.result_symbol = NEWLINE], self)
           ELSE AssertFailed(lexer, self)
      ELSE IF valid_symbols[DEDENT]
           THEN Returned(TRUE, [lexer EXCEPT !.result_symbol = DEDENT], self)
           ELSE AssertFailed(lexer, self)

\* handle_land_token with the push left out of the INDENT case.
handle_land_token_no_push(self, lexer, valid_symbols, next) ==
  LET current == get_current_jlist_column_index(self)
  IN  IF current < next
      THEN IF valid_symbols[INDENT]
           THEN Returned(TRUE, [lexer EXCEPT !.result_symbol = INDENT], self)
           ELSE Returned(FALSE, lexer, self)
      ELSE IF current = next
      THEN IF valid_symbols[NEWLINE]
           THEN Returned(TRUE, [lexer EXCEPT !.result_symbol = NEWLINE], self)
           ELSE AssertFailed(lexer, self)
      ELSE IF valid_symbols[DEDENT]
           THEN EmitDedent(lexer, self)
           ELSE AssertFailed(lexer, self)

\* handle_land_token with the first comparison written current <= next.
handle_land_token_leq(self, lexer, valid_symbols, next) ==
  LET current == get_current_jlist_column_index(self)
  IN  IF current <= next
      THEN IF valid_symbols[INDENT]
           THEN Returned(TRUE, [lexer EXCEPT !.result_symbol = INDENT],
                         push_back(self, next))
           ELSE Returned(FALSE, lexer, self)
      ELSE IF valid_symbols[DEDENT]
           THEN EmitDedent(lexer, self)
           ELSE AssertFailed(lexer, self)

\* The entries of a stack that are not right of column next.
RECURSIVE Unwound(_, _)
Unwound(self, next) ==
  IF self # <<>> /\ self[Len(self)] > next
  THEN Unwound(SubSeq(self, 1, Len(self) - 1), next)
  ELSE self

\* handle_land_token with the DEDENT case closing every list right of the
\* connective in one call.
handle_land_token_unwinds(self, lexer, valid_symbols, next) ==
  LET current == get_current_jlist_column_index(self)
  IN  IF current < next
      THEN IF valid_symbols[INDENT]
           THEN Returned(TRUE, [lexer EXCEPT !.result_symbol = INDENT],
                         push_back(self, next))
           ELSE Returned(FALSE, lexer, self)
      ELSE IF current = next
      THEN IF valid_symbols[NEWLINE]
           THEN Returned(TRUE, [lexer EXCEPT !.result_symbol = NEWLINE], self)
           ELSE AssertFailed(lexer, self)
      ELSE IF valid_symbols[DEDENT]
           THEN Returned(TRUE, [lexer EXCEPT !.result_symbol = DEDENT],
                         Unwound(self, next))
           ELSE AssertFailed(lexer, self)

handle_land_token(self, lexer, valid_symbols, next) ==
  LET current == get_current_jlist_column_index(self)
  IN  IF current < next
      THEN IF valid_symbols[INDENT]
           THEN Returned(TRUE, [lexer EXCEPT !.result_symbol = INDENT],
                         push_back(self, next))
           ELSE Returned(FALSE, lexer, self)
      ELSE IF current = next
      THEN IF valid_symbols[NEWLINE]
           THEN Returned(TRUE, [lexer EXCEPT !.result_symbol = NEWLINE], self)
           ELSE AssertFailed(lexer, self)
      ELSE IF valid_symbols[DEDENT]
           THEN EmitDedent(lexer, self)
           ELSE AssertFailed(lexer, self)

\* handle_non_land_token consuming the character it declines.
handle_non_land_token_consumes(self, lexer, valid_symbols, next) ==
  LET current == get_current_jlist_column_index(self)
  IN  IF next <= current
      THEN IF valid_symbols[DEDENT]
           THEN EmitDedent(lexer, self)
           ELSE AssertFailed(lexer, self)
      ELSE Returned(FALSE, advance(lexer), self)

handle_non_land_token(self, lexer, valid_symbols, next) ==
  LET current == get_current_jlist_column_index(self)
  IN  IF next <= current
      THEN IF valid_symbols[DEDENT]
           THEN EmitDedent(lexer, self)
           ELSE AssertFailed(lexer, self)
      ELSE Returned(FALSE, lexer, self)

----------------------------------------------------------------------------
(* Scanner::scan.                                                          *)

\* Control reaches the closing brace of scan without a return statement:
\* the value the caller reads is not determined by the program, and
\* result_symbol is whatever the host left in it.
FallsOffEnd(lexer, self) ==
  {Returned(ret, lexer, self) : ret \in BOOLEAN}

\* The while loop of scan, from the lexer's current position.
RECURSIVE ScanLoop(_, _, _)
ScanLoop(self, lexer, valid_symbols) ==
  IF ~has_next(lexer) THEN FallsOffEnd(lexer, self)
  ELSE LET c == next_codepoint(lexer)
       IN  IF c \in {SP, TAB, LF, CR}
           THEN ScanLoop(self, skip(lexer), valid_symbols)
           ELSE IF c = LAND
           THEN LET conj_col == column_index(get_column(lexer))
                IN  {handle_land_token(self, mark_end(lexer), valid_symbols,
                                       conj_col)}
           ELSE IF c = SLASH
           THEN LET conj_col == column_index(get_column(lexer))
                    after == advance(mark_end(lexer))
                IN  IF next_codepoint_is(after, BACKSLASH)
                    THEN {handle_land_token(self, after, valid_symbols,
                                            conj_col)}
                    ELSE {Returned(FALSE, after, self)}
           ELSE LET conj_col == column_index(get_column(lexer))
                IN  {handle_non_land_token(self, lexer, valid_symbols,
                                           conj_col)}

\* The outcomes of one call of scan.
scan(self, lexer, valid_symbols) ==
  IF valid_symbols[INDENT] \/ valid_symbols[NEWLINE] \/ valid_symbols[DEDENT]
  THEN ScanLoop(self, lexer, valid_symbols)
  ELSE FallsOffEnd(lexer, self)

----------------------------------------------------------------------------
(* The scanner instance and the host's calls on it.                        *)

\* valid_symbols: one flag per token type.
ValidSymbols == [TokenType -> BOOLEAN]

Columns == (0..MaxColumn) \cup {INT16_MAX}

\* An opening run: scans from the empty stack that each saw a connective,
\* with INDENT legal, right of all the ones before.  NoRun: not in one.
NoRun == [ok |-> FALSE, columns |-> <<>>]

\* The host is not re-examining an input position.  Otherwise: the text at
\* that position and its column, the stack before the first scan of it,
\* and the number of scans of it so far.
NoProbe == [active |-> FALSE, text |-> <<>>, column |-> 0, stack |-> <<>>,
            k |-> 0]

\* No call has returned since the host last took a result.
Idle ==
  [op |-> "none", valid_symbols |-> [t \in TokenType |-> FALSE],
   before |-> <<>>, given |-> NewLexer(<<>>, 0, INDENT),
   lexer |-> NewLexer(<<>>, 0, INDENT), ret |-> FALSE, len |-> 0,
   opening |-> NoRun]

\* The input as the properties below describe it, read off the text alone.
RECURSIVE Blanks(_)
Blanks(text) ==
  IF text # <<>> /\ Head(text) \in {SP, TAB, LF, CR}
  THEN 1 + Blanks(Tail(text)) ELSE 0

\* The text from its first non-blank character on.
Visible(text) == SubSeq(text, Blanks(text) + 1, Len(text))

AtEnd(text) == Visible(text) = <<>>

SeesUnicode(text) == ~AtEnd(text) /\ Visible(text)[1] = LAND

SeesDigraph(text) ==
  /\ Len(Visible(text)) >= 2
  /\ Visible(text)[1] = SLASH
  /\ Visible(text)[2] = BACKSLASH

SeesConnective(text) == SeesUnicode(text) \/ SeesDigraph(text)

SeesOther(text) == ~AtEnd(text) /\ ~SeesConnective(text)

\* tree_sitter_tlaplus_external_scanner_create: Scanner() calls
\* deserialize(NULL, 0) on the empty vector.
Init ==
  /\ column_indices = deserialize(<<>>, <<>>, 0)
  /\ status = "running"
  /\ buffer = <<>>
  /\ length = 0
  /\ saved = <<>>
  /\ call = Idle
  /\ run = [ok |-> TRUE, columns |-> <<>>]
  /\ probe = NoProbe

\* The host may call: the process runs and no call is in progress.
CanCall == status = "running" /\ call = Idle

\* tree_sitter_tlaplus_external_scanner_scan with one legality set, one
\* input at the cursor, one reported column and one value left by the host
\* in result_symbol.
ScanWith(valid_symbols, text, column, symbol) ==
  /\ LET given == NewLexer(text, column, symbol)
     IN  \E out \in scan(column_indices, given, valid_symbols) :
           /\ column_indices' = out.column_indices
           /\ status' = out.status
           /\ call' = [op |-> "scan", valid_symbols |-> valid_symbols,
                       before |-> column_indices, given |-> given,
                       lexer |-> out.lexer, ret |-> out.ret, len |-> 0,
                       opening |-> run]
  /\ run' = IF /\ run.ok
               /\ SeesConnective(text)
               /\ valid_symbols[INDENT]
               /\ \A i \in 1..Len(run.columns) : run.columns[i] < column
            THEN [run EXCEPT !.columns = Append(@, column)]
            ELSE NoRun
  /\ UNCHANGED <<buffer, length, saved>>

\* A scan for every legality set, every input at the cursor, every column
\* the host reports and every value the host left in result_symbol.
Scan ==
  /\ CanCall
  /\ \E valid_symbols \in ValidSymbols, text \in Texts, column \in Columns,
        symbol \in TokenType :
       ScanWith(valid_symbols, text, column, symbol)
  /\ UNCHANGED probe

\* tree_sitter_tlaplus_external_scanner_serialize: the host keeps the bytes
\* and the returned length as the snapshot of this state.
Serialize ==
  /\ CanCall
  /\ LET out == serialize(column_indices)
     IN  /\ status' = out.status
         /\ buffer' = out.buffer
         /\ length' = out.ret
         /\ saved' = column_indices
         /\ call' = [Idle EXCEPT !.op = "serialize",
                                 !.before = column_indices,
                                 !.len = out.ret]
  /\ run' = NoRun
  /\ UNCHANGED <<column_indices, probe>>

\* tree_sitter_tlaplus_external_scanner_deserialize, with the snapshot the
\* host kept, or with no bytes (length 0) to reset the scanner.
Deserialize ==
  /\ CanCall
  /\ \E len \in {0, length} :
       /\ column_indices' =
            deserialize(column_indices, IF len > 0 THEN buffer ELSE <<>>, len)
       /\ call' = [Idle EXCEPT !.op = "deserialize",
                               !.before = column_indices,
                               !.len = len]
  /\ run' = NoRun
  /\ UNCHANGED <<status, buffer, length, saved, probe>>

\* The host takes the result of the call and goes on to its next call.
HostContinues ==
  /\ status = "running"
  /\ call # Idle
  /\ call' = Idle
  /\ UNCHANGED <<column_indices, status, buffer, length, saved, run, probe>>

Next == Scan \/ Serialize \/ Deserialize \/ HostContinues

Spec == Init /\ [][Next]_vars

----------------------------------------------------------------------------
(* Deep nesting: every scan sees a connective one column right of the      *)
(* last, with INDENT legal, so that the depths around UINT8_MAX are        *)
(* reached.                                                                *)

\* The deepest stack the scans of SpecDeep build.
DeepLimit == UINT8_MAX + 1

OnlyIndent == [t \in TokenType |-> t = INDENT]

DeepScan ==
  /\ CanCall
  /\ Len(column_indices) < DeepLimit
  /\ ScanWith(OnlyIndent, <<LAND>>, Len(column_indices), INDENT)
  /\ UNCHANGED probe

NextDeep == DeepScan \/ Serialize \/ Deserialize \/ HostContinues

SpecDeep == Init /\ [][NextDeep]_vars

----------------------------------------------------------------------------
(* Wide columns: the host reports a column at or around the largest value  *)
(* of column_index.                                                        *)

WideColumns == {0, INT16_MAX, INT16_MAX + 1}

WideScan ==
  /\ CanCall
  /\ \E valid_symbols \in ValidSymbols, text \in Tails,
        column \in WideColumns, symbol \in TokenType :
       ScanWith(valid_symbols, text, column, symbol)
  /\ UNCHANGED probe

NextWide == WideScan \/ Serialize \/ Deserialize \/ HostContinues

SpecWide == Init /\ [][NextWide]_vars

----------------------------------------------------------------------------
(* Unwinding: the host retries the scan at one input position, a           *)
(* connective, with DEDENT legal, until the scan stops closing lists.      *)

\* The number of entries of a stack right of column c.
Greater(stack, c) == Cardinality({i \in DOMAIN stack : stack[i] > c})

\* A scan at any position, the cursor at a token or at the end of the
\* input: the host has moved on from the position it was re-examining.
MoveOn ==
  /\ CanCall
  /\ \E valid_symbols \in ValidSymbols, text \in Tails, column \in Columns,
        symbol \in TokenType :
       ScanWith(valid_symbols, text, column, symbol)
  /\ probe' = NoProbe

\* The first scan of a connective with DEDENT legal.
Examine ==
  /\ CanCall
  /\ \E valid_symbols \in ValidSymbols, text \in Texts, column \in Columns,
        symbol \in TokenType :
       /\ valid_symbols[DEDENT]
       /\ SeesConnective(text)
       /\ ScanWith(valid_symbols, text, column, symbol)
       /\ probe' = [active |-> TRUE, text |-> text, column |-> column,
                    stack |-> column_indices, k |-> 1]

\* One more scan of the same position, DEDENT still legal, as long as the
\* scans so far have not outnumbered the entries right of the connective.
Retry ==
  /\ CanCall
  /\ probe.active
  /\ probe.k <= Greater(probe.stack, probe.column)
  /\ \E valid_symbols \in ValidSymbols, symbol \in TokenType :
       /\ valid_symbols[DEDENT]
       /\ ScanWith(valid_symbols, probe.text, probe.column, symbol)
  /\ probe' = [probe EXCEPT !.k = @ + 1]

NextUnwind == MoveOn \/ Examine \/ Retry \/ HostContinues

SpecUnwind == Init /\ [][NextUnwind]_vars

----------------------------------------------------------------------------
(* What a returned call shows.                                             *)

\* The last call was a scan, and it returned.
ScanReturned == call.op = "scan" /\ status = "running"

\* The scan reported token t to the host.
Emitted(t) == ScanReturned /\ call.ret /\ call.lexer.result_symbol = t

\* The scan returned false.
Declined == ScanReturned /\ ~call.ret

AnyLegal(valid_symbols) == \E t \in TokenType : valid_symbols[t]

\* The top of a stack, -1 for the empty one.
Top(stack) == IF stack = <<>> THEN -1 ELSE stack[Len(stack)]

\* A stack without its top entry.
Popped(stack) == SubSeq(stack, 1, Len(stack) - 1)

----------------------------------------------------------------------------
(* The state codec.                                                        *)

\* C1: deserialize applied to the bytes serialize wrote for a stack s, with
\* the length serialize returned, leaves a stack equal to s: same depth and
\* the same columns in the same order.
C1_RoundTrip ==
  (call.op = "deserialize" /\ call.len > 0) => column_indices = saved

\* C2: deserialize replaces the stack wholesale, whatever it held before:
\* with the saved bytes and length the stack is the saved one again, and
\* with a zero-length buffer the stack is empty.
C2_RestoreWholesale ==
  call.op = "deserialize" =>
    column_indices = (IF call.len > 0 THEN saved ELSE <<>>)

----------------------------------------------------------------------------
(* The scan step.                                                          *)

\* C3: a token reported by scan is a member of the legality set passed to
\* that call.
C3_OnlyLegalTokens ==
  \A t \in TokenType : Emitted(t) => call.valid_symbols[t]

\* C4: the stack changes in lockstep with the token: INDENT pushes exactly
\* one column, DEDENT pops exactly one, NEWLINE and no token leave the
\* stack as it was.
C4_Lockstep ==
  ScanReturned =>
    /\ Emitted(INDENT) =>
         /\ Len(column_indices) = Len(call.before) + 1
         /\ Popped(column_indices) = call.before
    /\ Emitted(DEDENT) =>
         /\ call.before # <<>>
         /\ column_indices = Popped(call.before)
    /\ (Emitted(NEWLINE) \/ Declined) => column_indices = call.before

\* C5: when none of INDENT, NEWLINE and DEDENT is legal, scan consumes no
\* character, leaves the stack unchanged and returns false.
C5_NoScanWhenNoneLegal ==
  (ScanReturned /\ ~AnyLegal(call.valid_symbols)) =>
    /\ ~call.ret
    /\ call.lexer.pos = 1
    /\ call.lexer.skipped = 0
    /\ call.lexer.advanced = 0
    /\ column_indices = call.before

\* C6: a connective right of the current top (or of the sentinel) with
\* INDENT legal emits INDENT and pushes exactly that column on top of the
\* unchanged lower entries; so k such scans from the empty stack, at columns
\* c1 < ... < ck, each emit INDENT and leave the stack <<c1, ..., ck>>.
C6_MonotonicOpen ==
  /\ ( /\ call.op = "scan"
       /\ SeesConnective(call.given.text)
       /\ call.valid_symbols[INDENT]
       /\ call.given.column > Top(call.before) )
     => /\ Emitted(INDENT)
        /\ column_indices = Append(call.before, call.given.column)
  /\ run.ok =>
       /\ column_indices = run.columns
       /\ call.op = "scan" => Emitted(INDENT)

\* Three scans from the empty stack have opened three nested lists.
C6_Witness ==
  /\ run.ok
  /\ Len(run.columns) = 3
  /\ Emitted(INDENT)
  /\ Len(call.before) = 2

\* C7: on a non-empty stack, a connective at the column of the current top
\* with NEWLINE legal emits NEWLINE and leaves the stack unchanged; so after
\* an INDENT at column c from the empty stack, a connective at column c gives
\* NEWLINE with the stack <<c>>.
C7_SameColumnSeparator ==
  /\ ( /\ call.op = "scan"
       /\ call.before # <<>>
       /\ SeesConnective(call.given.text)
       /\ call.valid_symbols[NEWLINE]
       /\ call.given.column = Top(call.before) )
     => /\ Emitted(NEWLINE)
        /\ column_indices = call.before
  /\ ( /\ call.op = "scan"
       /\ call.opening.ok
       /\ Len(call.opening.columns) = 1
       /\ SeesConnective(call.given.text)
       /\ call.valid_symbols[NEWLINE]
       /\ call.given.column = call.opening.columns[1] )
     => /\ Emitted(NEWLINE)
        /\ column_indices = <<call.given.column>>

\* A list opened at a column, then a second connective at that column while
\* INDENT is legal too.
C7_Witness ==
  /\ Emitted(NEWLINE)
  /\ call.opening.ok
  /\ call.opening.columns = <<call.given.column>>
  /\ SeesDigraph(call.given.text)
  /\ call.valid_symbols[INDENT]
  /\ call.given.column > 0

\* C8: on a non-empty stack, a connective left of the current top with
\* DEDENT legal emits DEDENT and pops exactly one level, also when several
\* open lists lie right of the connective.
C8_SingleLevelClose ==
  ( /\ call.op = "scan"
    /\ call.before # <<>>
    /\ SeesConnective(call.given.text)
    /\ call.valid_symbols[DEDENT]
    /\ call.given.column < Top(call.before) )
  => /\ Emitted(DEDENT)
     /\ column_indices = Popped(call.before)

\* Two open lists lie right of the connective, and one of them was closed.
C8_Witness ==
  /\ Emitted(DEDENT)
  /\ SeesConnective(call.given.text)
  /\ Len(call.before) >= 2
  /\ call.given.column < call.before[Len(call.before) - 1]
  /\ column_indices = Popped(call.before)

\* C9: on a non-empty stack, when the first non-blank character does not
\* spell the connective: at a column not right of the current top, with
\* DEDENT legal, scan emits DEDENT and pops exactly one level; at a column
\* right of the current top it emits no token and leaves the stack
\* unchanged.  (Stated for the calls that read the input, those with at
\* least one token legal.)
C9_NonConnectiveRule ==
  ( /\ call.op = "scan"
    /\ call.before # <<>>
    /\ AnyLegal(call.valid_symbols)
    /\ SeesOther(call.given.text) )
  => /\ ( call.given.column <= Top(call.before) /\ call.valid_symbols[DEDENT] )
        => /\ Emitted(DEDENT)
           /\ column_indices = Popped(call.before)
     /\ call.given.column > Top(call.before)
        => /\ Declined
           /\ column_indices = call.before

\* C10: for every stack, a connective right of the current top (or of the
\* sentinel) while INDENT is not legal emits no token and leaves the stack
\* unchanged, whichever of NEWLINE and DEDENT are legal.
C10_InfixUse ==
  ( /\ call.op = "scan"
    /\ SeesConnective(call.given.text)
    /\ ~call.valid_symbols[INDENT]
    /\ call.given.column > Top(call.before) )
  => /\ Declined
     /\ column_indices = call.before

----------------------------------------------------------------------------
(* What a call consumes.                                                   *)

IsBlank(c) == c \in {SP, TAB, LF, CR}

\* The characters the call has passed, by skip or by advance.
Consumed == SubSeq(call.given.text, 1, call.lexer.pos - 1)

\* C11 as stated: whenever scan declines, the only characters it has
\* consumed are blanks, and none was passed with advance.
C11_DeclineConsumesOnlyBlanks ==
  Declined =>
    /\ call.lexer.advanced = 0
    /\ \A i \in 1..Len(Consumed) : IsBlank(Consumed[i])

\* C11, amended: whenever scan declines, it has passed blanks only, except
\* that when the first non-blank character is a slash it has also advanced
\* past that one slash, after marking the token end in front of it.  With
\* some token legal every leading blank is skipped; with none legal nothing
\* is consumed.
C11_DeclineConsumesBlanksOrSlash ==
  Declined =>
    LET text == call.given.text
        lexer == call.lexer
        slash == ~AtEnd(text) /\ Visible(text)[1] = SLASH
    IN  IF ~AnyLegal(call.valid_symbols)
        THEN lexer.pos = 1 /\ lexer.skipped = 0 /\ lexer.advanced = 0
        ELSE /\ lexer.skipped = Blanks(text)
             /\ \A i \in 1..Blanks(text) : IsBlank(Consumed[i])
             /\ IF slash
                THEN /\ lexer.advanced = 1
                     /\ lexer.pos = Blanks(text) + 2
                     /\ lexer.token_end = Blanks(text) + 1
                ELSE /\ lexer.advanced = 0
                     /\ lexer.pos = Blanks(text) + 1

\* A digraph after a blank, declined as an infix operator with the cursor
\* left behind its slash.
C11_Witness ==
  /\ Declined
  /\ SeesDigraph(call.given.text)
  /\ Blanks(call.given.text) = 1
  /\ call.lexer.pos = 3
  /\ call.before # <<>>

\* C12: with some token legal and only blanks between the cursor and the end
\* of the input, scan skips the blanks, returns false and leaves the stack
\* unchanged, also when lists are open and DEDENT is legal.
C12_EndOfInput ==
  ( /\ call.op = "scan"
    /\ AnyLegal(call.valid_symbols)
    /\ AtEnd(call.given.text) )
  => /\ Declined
     /\ call.lexer.skipped = Blanks(call.given.text)
     /\ call.lexer.advanced = 0
     /\ column_indices = call.before

----------------------------------------------------------------------------
(* The depth of the stack.                                                 *)

\* C13: in every reachable state the depth of the stack is at most 255; an
\* INDENT that would create a 256th level fails instead of pushing.
C13_DepthBound ==
  /\ Len(column_indices) <= UINT8_MAX
  /\ ( call.op = "scan" /\ Len(call.before) = UINT8_MAX )
     => column_indices = call.before

\* C14: in every state reached by scans, serialize completes, writes the
\* depth N in the first byte and the N columns after it, low byte first and
\* bottom to top, returns 1 + 2 * N and leaves the stack unchanged.
C14_SerializeTotal ==
  call.op = "serialize" =>
    LET N == Len(call.before)
    IN  /\ status = "running"
        /\ column_indices = call.before
        /\ length = 1 + 2 * N
        /\ Len(buffer) = length
        /\ buffer[1] = N
        /\ \A i \in 1..N :
             buffer[2 * i] + 256 * buffer[2 * i + 1] = call.before[i]

----------------------------------------------------------------------------
(* Unwinding.                                                              *)

\* The last call was scan number k of the position under re-examination.
Unwinding(k) == call.op = "scan" /\ probe.active /\ probe.k = k

\* The entries right of the connective when the re-examination began.
ToClose == Greater(probe.stack, probe.column)

\* The first k scans each closed one list.
ClosedSoFar(k) ==
  /\ Emitted(DEDENT)
  /\ column_indices = SubSeq(probe.stack, 1, Len(probe.stack) - k)

\* The entries not right of the connective are still at the bottom.
KeepsLower ==
  LET keep == Len(probe.stack) - ToClose
  IN  /\ Len(column_indices) >= keep
      /\ SubSeq(column_indices, 1, keep) = SubSeq(probe.stack, 1, keep)

\* C15 as stated: with DEDENT legal and one position re-examined, a
\* connective at column c with N entries right of it: scans 1..N each emit
\* DEDENT and pop one level; scan N+1 emits no DEDENT: NEWLINE when the new
\* top equals c, otherwise INDENT or nothing; the entries not right of c
\* are never removed.
C15_Unwinding ==
  \A k \in 1..(ToClose + 1) :
    Unwinding(k) =>
      /\ k <= ToClose => ClosedSoFar(k)
      /\ k = ToClose + 1 =>
           /\ ~Emitted(DEDENT)
           /\ IF Top(call.before) = probe.column
              THEN Emitted(NEWLINE)
              ELSE Emitted(INDENT) \/ Declined
      /\ KeepsLower

\* C15, amended: as above, except that scan N+1 emits NEWLINE at an equal
\* top only if NEWLINE is legal; if it is not, the call fails its assertion
\* and emits nothing.  Otherwise it emits INDENT (pushing c) when INDENT is
\* legal and nothing when not.
C15_UnwindingLegal ==
  \A k \in 1..(ToClose + 1) :
    Unwinding(k) =>
      /\ k <= ToClose => ClosedSoFar(k)
      /\ k = ToClose + 1 =>
           /\ ~Emitted(DEDENT)
           /\ IF Top(call.before) = probe.column
              THEN IF call.valid_symbols[NEWLINE]
                   THEN Emitted(NEWLINE) /\ column_indices = call.before
                   ELSE status = "aborted" /\ column_indices = call.before
              ELSE IF call.valid_symbols[INDENT]
                   THEN /\ Emitted(INDENT)
                        /\ column_indices =
                             Append(call.before, probe.column)
                   ELSE Declined /\ column_indices = call.before
      /\ KeepsLower

\* Two lists right of the connective were closed by two scans, and the
\* third scan of the position found the connective at the new top.
C15_Witness ==
  /\ Unwinding(3)
  /\ ToClose = 2
  /\ Len(probe.stack) = 3
  /\ Emitted(NEWLINE)
  /\ column_indices = <<probe.column>>

----------------------------------------------------------------------------
(* The two spellings.                                                      *)

\* The same input with the connective in its other spelling.
Respelled(text) ==
  SubSeq(text, 1, Blanks(text)) \o
    (IF SeesUnicode(text) THEN <<SLASH, BACKSLASH>> ELSE <<LAND>>)

\* An outcome of scan reports what the last call reported: both returned
\* or both did not, the same token or both none, the same stack.
SameReport(out) ==
  /\ out.status = status
  /\ out.ret = call.ret
  /\ out.ret => out.lexer.result_symbol = call.lexer.result_symbol
  /\ out.column_indices = column_indices

\* C16: for every stack, every legality set and every column, a scan that
\* sees one spelling of the connective and a scan that sees the other, its
\* first character at the same column, report the same result and leave
\* the same stack.
C16_SpellingsEquivalent ==
  ( call.op = "scan" /\ SeesConnective(call.given.text) ) =>
    \A out \in scan(call.before,
                    NewLexer(Respelled(call.given.text), call.given.column,
                             call.given.result_symbol),
                    call.valid_symbols) :
      SameReport(out)

----------------------------------------------------------------------------
(* The extent of a token.                                                  *)

\* Where the token the host takes ends: at the mark, or at the cursor when
\* mark_end was never called.
TokenEnd(lexer) ==
  IF lexer.token_end = 0 THEN lexer.pos ELSE lexer.token_end

\* C17: whenever scan emits INDENT, NEWLINE or DEDENT, the token ends at the
\* first non-blank character, every character before that point is a blank
\* passed with skip, and no character was advanced over before the end of
\* the token.
C17_ZeroWidth ==
  \A t \in TokenType :
    Emitted(t) =>
      LET text == call.given.text
          lexer == call.lexer
      IN  /\ ~AtEnd(text)
          /\ TokenEnd(lexer) = Blanks(text) + 1
          /\ lexer.skipped = Blanks(text)
          /\ lexer.pos - 1 = lexer.skipped + lexer.advanced
          /\ lexer.advanced > 0 => lexer.token_end = Blanks(text) + 1

----------------------------------------------------------------------------
(* The range of the columns.                                               *)

\* C18: for every column c the host reports with 0 <= c <= 2^15, the value
\* a scan that reads the column compares with the top and pushes is c
\* itself, right of the sentinel -1: a connective at c on the empty stack
\* with INDENT legal pushes c.
C18_ColumnRange ==
  ( /\ call.op = "scan"
    /\ AnyLegal(call.valid_symbols)
    /\ ~AtEnd(call.given.text)
    /\ call.given.column >= 0
    /\ call.given.column <= INT16_MAX + 1 )
  => /\ column_index(get_column(call.given)) = call.given.column
     /\ column_index(get_column(call.given)) > -1
     /\ ( /\ call.before = <<>>
          /\ SeesConnective(call.given.text)
          /\ call.valid_symbols[INDENT] )
        => /\ Emitted(INDENT)
           /\ column_indices = <<call.given.column>>

\* C19: in every state reached from the empty stack by scans and restores of
\* snapshots taken before, the columns of the stack are strictly increasing
\* from bottom to top and none is negative, so that the top is the largest.
C19_StackOrdered ==
  /\ \A i \in 1..Len(column_indices) : column_indices[i] >= 0
  /\ \A i, j \in 1..Len(column_indices) :
       i < j => column_indices[i] < column_indices[j]
  /\ \A i \in 1..Len(column_indices) :
       column_indices[i] <= Top(column_indices)

\* A snapshot of three nested lists was restored over a different stack.
C19_Witness ==
  /\ call.op = "deserialize"
  /\ call.len > 0
  /\ call.before # column_indices
  /\ Len(column_indices) = 3
  /\ column_indices = saved

\* C20: with the columns in 0..32767, whenever the stack is empty scan emits
\* neither NEWLINE nor DEDENT and never pops: a connective yields INDENT if
\* INDENT is legal and nothing otherwise, any other character yields
\* nothing.
C20_EmptyStack ==
  /\ status # "undefined"
  /\ ( /\ call.op = "scan"
       /\ call.before = <<>>
       /\ call.given.column \in 0..INT16_MAX )
     => /\ ~Emitted(NEWLINE)
        /\ ~Emitted(DEDENT)
        /\ Len(column_indices) >= Len(call.before)
        /\ SeesConnective(call.given.text) =>
             IF call.valid_symbols[INDENT]
             THEN Emitted(INDENT)
             ELSE Declined /\ column_indices = <<>>
        /\ SeesOther(call.given.text) =>
             Declined /\ column_indices = <<>>

====
